---------------------------- MODULE Spec2Model ----------------------------
(***************************************************************************)
(* Model of the perp base-position liquidation instruction of mango-v4     *)
(* (programs/mango-v4/src/instructions/perp_liq_base_position.rs) and of   *)
(* the token table of the group (programs/mango-v4/src/state/              *)
(* mango_group.rs).                                                        *)
(*                                                                         *)
(* Fixed-point values (I80F48) are held as raw integers: the value x is    *)
(* the integer x * Scale.  The widths of I80F48 and i64 are scaled down    *)
(* (FixedBits, LotBits) so that the checked operations of the code can     *)
(* overflow inside the explored range.                                     *)
(***************************************************************************)
EXTENDS Integers, Sequences, FiniteSets, TLC

VARIABLES liqee, liqor, perp_market, oracle_price, last, tokens, lookup

vars == <<liqee, liqor, perp_market, oracle_price, last, tokens, lookup>>

---------------------------------------------------------------------------
(* Bounds of the model *)

\* fractional bits of the fixed-point stand-in for I80F48 (48 in the code)
FracBits == 2
\* total bits of the fixed-point stand-in for I80F48 (128 in the code)
FixedBits == 16
\* bits of the stand-in for i64 (64 in the code)
LotBits == 10
\* small base positions and caller bounds range over -MaxLots..MaxLots
MaxLots == 1
\* leading slots of the token table that may hold a registered token
MaxRegistered == 3

---------------------------------------------------------------------------
(* Integer helpers *)

Abs(x) == IF x < 0 THEN -x ELSE x

Min(a, b) == IF a <= b THEN a ELSE b

Max(a, b) == IF a >= b THEN a ELSE b

\* integer division rounding toward zero (Rust `/` on integers)
TruncDiv(a, b) ==
    IF (a >= 0) = (b > 0) THEN Abs(a) \div Abs(b) ELSE -(Abs(a) \div Abs(b))

---------------------------------------------------------------------------
(* I80F48 and i64 *)

Scale == 2 ^ FracBits

FixedMax == 2 ^ (FixedBits - 1) - 1

FixedMin == -(2 ^ (FixedBits - 1))

I64Max == 2 ^ (LotBits - 1) - 1

I64Min == -(2 ^ (LotBits - 1))

\* a raw value is representable in the fixed-point type
InFixed(x) == FixedMin <= x /\ x <= FixedMax

InI64(n) == I64Min <= n /\ n <= I64Max

\* I80F48::from(n) for an integer n
FromInt(n) == n * Scale

\* n quarters as a raw value (weights and fees are multiples of 1/4)
Quarters(n) == n * (Scale \div 4)

ONE == FromInt(1)

ZERO == 0

\* raw product of two fixed-point values: the wide product shifted right
FixMul(a, b) == (a * b) \div Scale

\* raw quotient of two fixed-point values, b # 0: the shifted dividend
\* divided with integer division
FixDiv(a, b) == TruncDiv(a * Scale, b)

\* ceil() and floor() of a fixed-point value, as raw values
FixCeil(a) == -(((-a) \div Scale) * Scale)

FixFloor(a) == (a \div Scale) * Scale

\* to_num::<i64>() of a fixed-point value
ToNum(a) == a \div Scale

---------------------------------------------------------------------------
(* Accounts, positions and the market *)

Keys == {"owner", "delegate", "stranger"}

\* PerpPosition::default(): the position ensure_perp_position creates
NewPerpPosition ==
    [active |-> TRUE, base_position_lots |-> 0, quote_position |-> ZERO,
     settled_funding |-> ZERO, has_open_orders |-> FALSE]

\* an unused perp position slot
NoPerpPosition == [NewPerpPosition EXCEPT !.active = FALSE]

\* liqor.fixed.is_owner_or_delegate(key)
is_owner_or_delegate(account, key) ==
    account.owner = key \/ account.delegate = key

\* price_per_lot = base_lot_size * oracle_price, as a raw value (the
\* product may be out of the fixed-point range)
PricePerLot(market, price) == FixMul(FromInt(market.base_lot_size), price)

\* funding accrued by a position since its last settlement
UnsettledFunding(position, market) ==
    FixMul(FromInt(position.base_position_lots),
           market.funding - position.settled_funding)

\* PerpPosition::settle_funding(&perp_market)
settle_funding(position, market) ==
    [position EXCEPT
        !.quote_position = @ - UnsettledFunding(position, market),
        !.settled_funding = market.funding]

\* PerpPosition::change_base_and_quote_positions(&mut perp_market, base, quote)
change_base_and_quote_positions(position, base_change, quote_change) ==
    [position EXCEPT
        !.base_position_lots = @ + base_change,
        !.quote_position = @ + quote_change]

\* the weight the health engine gives the base of a perp position
PerpWeight(position, market, health_type) ==
    IF position.base_position_lots > 0
    THEN (IF health_type = "Init" THEN market.init_asset_weight
                                  ELSE market.maint_asset_weight)
    ELSE (IF health_type = "Init" THEN market.init_liab_weight
                                  ELSE market.maint_liab_weight)

\* health contribution of the perp position: quote (funding included) plus
\* the weighted value of the base
PerpHealth(position, market, price, health_type) ==
    IF ~position.active THEN ZERO
    ELSE position.quote_position - UnsettledFunding(position, market)
         + FixMul(FixMul(FromInt(position.base_position_lots),
                         PricePerLot(market, price)),
                  PerpWeight(position, market, health_type))

\* HealthCache::health(health_type) of an account: the health of its
\* token positions plus the health of its perp position
health(account, market, price, health_type) ==
    account.other_health + PerpHealth(account.perp, market, price, health_type)

---------------------------------------------------------------------------
(* perp_liq_base_position, step by step *)

\* the liqor checks without `require!(!liqor.fixed.being_liquidated())`
LiqorChecksNoLiquidatedCheck(liqor0, liqor_owner) ==
    IF ~is_owner_or_delegate(liqor0, liqor_owner) THEN "SomeError"
    ELSE "Ok"

\* account constraint #1 and the liqor's being_liquidated check
LiqorChecks(liqor0, liqor_owner) ==
    IF ~is_owner_or_delegate(liqor0, liqor_owner) THEN "SomeError"
    ELSE IF liqor0.being_liquidated THEN "BeingLiquidated"
    ELSE "Ok"

\* MangoAccountFixed::maybe_recover_from_being_liquidated(init_health):
\* the account and whether it recovered
maybe_recover_from_being_liquidated(account, init_health) ==
    IF account.being_liquidated /\ init_health >= ZERO
    THEN [account |-> [account EXCEPT !.being_liquidated = FALSE],
          recovered |-> TRUE]
    ELSE [account |-> account, recovered |-> FALSE]

\* the gate without the early return of a recovered liqee
LiqeeGateNoEarlyReturn(liqee0, liqee_init_health, maint_health) ==
    IF liqee0.being_liquidated
    THEN [result |-> "Continue",
          liqee |-> maybe_recover_from_being_liquidated(
                        liqee0, liqee_init_health).account]
    ELSE IF ~(maint_health < ZERO)
         THEN [result |-> "HealthMustBeNegative", liqee |-> liqee0]
         ELSE [result |-> "Continue",
               liqee |-> [liqee0 EXCEPT !.being_liquidated = TRUE]]

\* the gate without `require!(maint_health < 0)`
LiqeeGateNoMaintCheck(liqee0, liqee_init_health, maint_health) ==
    IF liqee0.being_liquidated
    THEN LET r == maybe_recover_from_being_liquidated(liqee0, liqee_init_health)
         IN  [result |-> IF r.recovered THEN "Return" ELSE "Continue",
              liqee |-> r.account]
    ELSE [result |-> "Continue",
          liqee |-> [liqee0 EXCEPT !.being_liquidated = TRUE]]

\* the gate with a flagged liqee recovering on Maintenance health
LiqeeGateExitOnMaint(liqee0, liqee_init_health, maint_health) ==
    IF liqee0.being_liquidated
    THEN LET r == maybe_recover_from_being_liquidated(liqee0, maint_health)
         IN  [result |-> IF r.recovered THEN "Return" ELSE "Continue",
              liqee |-> r.account]
    ELSE IF ~(maint_health < ZERO)
         THEN [result |-> "HealthMustBeNegative", liqee |-> liqee0]
         ELSE [result |-> "Continue",
               liqee |-> [liqee0 EXCEPT !.being_liquidated = TRUE]]

\* the liqee's entry into liquidation: "Return" (early Ok), "Continue" or
\* the error, with the liqee as it is in memory afterwards
LiqeeGate(liqee0, liqee_init_health, maint_health) ==
    IF liqee0.being_liquidated
    THEN LET r == maybe_recover_from_being_liquidated(liqee0, liqee_init_health)
         IN  [result |-> IF r.recovered THEN "Return" ELSE "Continue",
              liqee |-> r.account]
    ELSE IF ~(maint_health < ZERO)
         THEN [result |-> "HealthMustBeNegative", liqee |-> liqee0]
         ELSE [result |-> "Continue",
               liqee |-> [liqee0 EXCEPT !.being_liquidated = TRUE]]

\* liqor.ensure_perp_position(perp_market_index): the liqor with a
\* position in the market, created if a slot is free
ensure_perp_position(liqor0) ==
    IF liqor0.perp.active THEN [result |-> "Ok", liqor |-> liqor0]
    ELSE IF liqor0.free_perp_slots = 0
         THEN [result |-> "AccountError", liqor |-> liqor0]
         ELSE [result |-> "Ok",
               liqor |-> [liqor0 EXCEPT !.perp = NewPerpPosition,
                                        !.free_perp_slots = @ - 1]]

\* base_transfer without `.min(liqee_base_lots)`
LongBaseTransferNoPositionCap(base_transfer_for_zero, liqee_base_lots, max_base_transfer) ==
    Max(Min(base_transfer_for_zero, max_base_transfer), 0)

\* base_transfer without `.min(max_base_transfer)`
LongBaseTransferNoBoundCap(base_transfer_for_zero, liqee_base_lots, max_base_transfer) ==
    Max(Min(base_transfer_for_zero, liqee_base_lots), 0)

\* base_transfer in the long branch
LongBaseTransfer(base_transfer_for_zero, liqee_base_lots, max_base_transfer) ==
    Max(Min(Min(base_transfer_for_zero, liqee_base_lots), max_base_transfer), 0)

\* base_transfer without `.max(liqee_base_lots)`
ShortBaseTransferNoPositionCap(base_transfer_for_zero, liqee_base_lots, max_base_transfer) ==
    Min(Max(base_transfer_for_zero, max_base_transfer), 0)

\* base_transfer in the short branch
ShortBaseTransfer(base_transfer_for_zero, liqee_base_lots, max_base_transfer) ==
    Min(Max(Max(base_transfer_for_zero, liqee_base_lots), max_base_transfer), 0)

\* health_per_lot in the long branch
LongHealthPerLot(market, price_per_lot) ==
    FixMul(price_per_lot,
           (ONE - market.init_asset_weight) - market.liquidation_fee)

\* health_per_lot in the short branch
ShortHealthPerLot(market, price_per_lot) ==
    FixMul(price_per_lot,
           (market.init_liab_weight - ONE) + market.liquidation_fee)

\* the values a sizing branch computes; result is "Ok", "RequireMsg" or
\* "Panic" (a checked operation or an unwrap failed)
SizingOut(result, health_per_lot, base_transfer_for_zero, base_transfer, quote_transfer) ==
    [result |-> result, health_per_lot |-> health_per_lot,
     base_transfer_for_zero |-> base_transfer_for_zero,
     base_transfer |-> base_transfer, quote_transfer |-> quote_transfer]

\* the long quote transfer charged with the fee instead of discounted
LongQuoteTransferPlusFee(market, price_per_lot, base_transfer) ==
    FixMul(FixMul(-FromInt(base_transfer), price_per_lot), ONE + market.liquidation_fee)

\* quote_transfer of the long branch: the liqor pays the price less the fee
LongQuoteTransfer(market, price_per_lot, base_transfer) ==
    FixMul(FixMul(-FromInt(base_transfer), price_per_lot), ONE - market.liquidation_fee)

\* quote_transfer of the short branch: the liqor receives the price plus
\* the fee
ShortQuoteTransfer(market, price_per_lot, base_transfer) ==
    FixMul(FixMul(-FromInt(base_transfer), price_per_lot), ONE + market.liquidation_fee)

\* the long branch: liqee_base_lots > 0
LongBranch(market, price_per_lot, liqee_base_lots, liqee_init_health, max_base_transfer) ==
    LET health_per_lot == LongHealthPerLot(market, price_per_lot)
        quotient == FixDiv(-liqee_init_health, health_per_lot)
        base_transfer_for_zero == ToNum(FixCeil(quotient))
        base_transfer == LongBaseTransfer(base_transfer_for_zero,
                                          liqee_base_lots, max_base_transfer)
        quote_1 == FixMul(-FromInt(base_transfer), price_per_lot)
        quote_transfer == LongQuoteTransfer(market, price_per_lot, base_transfer)
    IN  IF ~(max_base_transfer > 0)
        THEN SizingOut("RequireMsg", 0, 0, 0, 0)
        ELSE IF ~InFixed(health_per_lot)
        THEN SizingOut("Panic", 0, 0, 0, 0)
        ELSE IF \/ health_per_lot = 0
                \/ ~InFixed(-liqee_init_health)
                \/ ~InFixed(quotient)
                \/ ~InFixed(FixCeil(quotient))
                \/ ~InI64(base_transfer_for_zero)
        THEN SizingOut("Panic", health_per_lot, 0, 0, 0)
        ELSE IF ~InFixed(quote_1) \/ ~InFixed(quote_transfer)
        THEN SizingOut("Panic", health_per_lot, base_transfer_for_zero,
                       base_transfer, 0)
        ELSE SizingOut("Ok", health_per_lot, base_transfer_for_zero,
                       base_transfer, quote_transfer)

\* the short branch: liqee_base_lots < 0
ShortBranch(market, price_per_lot, liqee_base_lots, liqee_init_health, max_base_transfer) ==
    LET health_per_lot == ShortHealthPerLot(market, price_per_lot)
        quotient == FixDiv(liqee_init_health, health_per_lot)
        base_transfer_for_zero == ToNum(FixFloor(quotient))
        base_transfer == ShortBaseTransfer(base_transfer_for_zero,
                                           liqee_base_lots, max_base_transfer)
        quote_1 == FixMul(-FromInt(base_transfer), price_per_lot)
        quote_transfer == ShortQuoteTransfer(market, price_per_lot, base_transfer)
    IN  IF ~(max_base_transfer < 0)
        THEN SizingOut("RequireMsg", 0, 0, 0, 0)
        ELSE IF ~InFixed(health_per_lot)
        THEN SizingOut("Panic", 0, 0, 0, 0)
        ELSE IF \/ health_per_lot = 0
                \/ ~InFixed(quotient)
                \/ ~InFixed(FixFloor(quotient))
                \/ ~InI64(base_transfer_for_zero)
        THEN SizingOut("Panic", health_per_lot, 0, 0, 0)
        ELSE IF ~InFixed(quote_1) \/ ~InFixed(quote_transfer)
        THEN SizingOut("Panic", health_per_lot, base_transfer_for_zero,
                       base_transfer, 0)
        ELSE SizingOut("Ok", health_per_lot, base_transfer_for_zero,
                       base_transfer, quote_transfer)

\* sizing that takes the caller's bound by magnitude
SizingAbsBound(market, price_per_lot, liqee_base_lots, liqee_init_health, max_base_transfer) ==
    IF liqee_base_lots > 0
    THEN LongBranch(market, price_per_lot, liqee_base_lots, liqee_init_health, Abs(max_base_transfer))
    ELSE ShortBranch(market, price_per_lot, liqee_base_lots, liqee_init_health, -Abs(max_base_transfer))

\* (base_transfer, quote_transfer) for a non-zero liqee position
Sizing(market, price_per_lot, liqee_base_lots, liqee_init_health, max_base_transfer) ==
    IF liqee_base_lots > 0
    THEN LongBranch(market, price_per_lot, liqee_base_lots,
                    liqee_init_health, max_base_transfer)
    ELSE ShortBranch(market, price_per_lot, liqee_base_lots,
                     liqee_init_health, max_base_transfer)

\* the instruction without the liqor's final health check
LiqorHealthCheckMissing(liqor1, liqor_health) == "Ok"

\* the liqor's final health check: skipped inside a health region
LiqorHealthCheck(liqor1, liqor_health) ==
    IF ~liqor1.in_health_region /\ ~(liqor_health >= 0)
    THEN "HealthMustBePositive"
    ELSE "Ok"

\* what an invocation leaves behind: its result, the accounts as they are
\* in memory when it returns, and the values it computed on the way
\* (stage: how far it got)
Outcome(liqor0, liqee0) ==
    [result |-> "Ok", stage |-> "start", liqor |-> liqor0, liqee |-> liqee0,
     liqee_init_health |-> 0, maint_health |-> 0, liqee_base_lots |-> 0,
     health_per_lot |-> 0, base_transfer_for_zero |-> 0,
     base_transfer |-> 0, quote_transfer |-> 0,
     liqee_end_health |-> 0, liqor_health |-> 0]

\* the instruction without the open-orders requirement
OpenOrdersCheckMissing(position) == "Ok"

\* the liqee's position may not have open orders
OpenOrdersCheck(position) ==
    IF ~(~position.has_open_orders) THEN "HasOpenPerpOrders" ELSE "Ok"

\* a transfer applied in the wrong direction: the liqee receives what the
\* liqor should
ExecuteTransferReversed(liqee_settled, liqor_settled, base_transfer, quote_transfer) ==
    [liqee |-> [liqee_settled EXCEPT !.perp = change_base_and_quote_positions(@, base_transfer, quote_transfer)],
     liqor |-> [liqor_settled EXCEPT !.perp = change_base_and_quote_positions(@, -base_transfer, -quote_transfer)]]

\* a transfer that credits the quote to both sides
ExecuteTransferQuoteToBoth(liqee_settled, liqor_settled, base_transfer, quote_transfer) ==
    [liqee |-> [liqee_settled EXCEPT !.perp = change_base_and_quote_positions(@, -base_transfer, quote_transfer)],
     liqor |-> [liqor_settled EXCEPT !.perp = change_base_and_quote_positions(@, base_transfer, quote_transfer)]]

\* execute the transfer: the liqee's position changes by the negated
\* amounts, the liqor's by the amounts themselves
ExecuteTransfer(liqee_settled, liqor_settled, base_transfer, quote_transfer) ==
    [liqee |-> [liqee_settled EXCEPT !.perp = change_base_and_quote_positions(@, -base_transfer, -quote_transfer)],
     liqor |-> [liqor_settled EXCEPT !.perp = change_base_and_quote_positions(@, base_transfer, quote_transfer)]]

\* the instruction from the position fetch to its end, entered with the
\* out record of the liqee gate
TakeOver(out1, market, price, max_base_transfer) ==
    LET price_per_lot == PricePerLot(market, price)
        ensured == ensure_perp_position(out1.liqor)
        liqee_base_lots == out1.liqee.perp.base_position_lots
        out2 == [out1 EXCEPT !.liqor = ensured.liqor,
                             !.liqee_base_lots = liqee_base_lots,
                             !.stage = "positions"]
        \* settle funding
        liqee_settled == [out2.liqee EXCEPT
                            !.perp = settle_funding(@, market)]
        liqor_settled == [out2.liqor EXCEPT
                            !.perp = settle_funding(@, market)]
        out3 == [out2 EXCEPT !.liqee = liqee_settled,
                             !.liqor = liqor_settled,
                             !.stage = "settled"]
        sized == Sizing(market, price_per_lot, liqee_base_lots,
                        out1.liqee_init_health, max_base_transfer)
        out4 == [out3 EXCEPT
                    !.health_per_lot = sized.health_per_lot,
                    !.base_transfer_for_zero = sized.base_transfer_for_zero,
                    !.base_transfer = sized.base_transfer,
                    !.quote_transfer = sized.quote_transfer,
                    !.stage = "sizing"]
        \* execute the transfer
        traded == ExecuteTransfer(liqee_settled, liqor_settled,
                                  sized.base_transfer, sized.quote_transfer)
        liqee_traded == traded.liqee
        liqor_traded == traded.liqor
        \* check liqee health again
        liqee_end_health == health(liqee_traded, market, price, "Init")
        liqee_end == maybe_recover_from_being_liquidated(
                        liqee_traded, liqee_end_health).account
        liqor_health == health(liqor_traded, market, price, "Init")
        out5 == [out4 EXCEPT !.liqee = liqee_end, !.liqor = liqor_traded,
                             !.liqee_end_health = liqee_end_health,
                             !.liqor_health =
                                IF liqor_traded.in_health_region THEN 0
                                ELSE liqor_health,
                             !.stage = "transferred"]
    IN  IF ~InFixed(price_per_lot)
        THEN [out1 EXCEPT !.result = "Panic"]
        ELSE IF ~out1.liqee.perp.active
        THEN [out1 EXCEPT !.result = "AccountError"]
        ELSE IF ensured.result # "Ok"
        THEN [out1 EXCEPT !.result = ensured.result]
        ELSE IF OpenOrdersCheck(out1.liqee.perp) # "Ok"
        THEN [out2 EXCEPT !.result = OpenOrdersCheck(out1.liqee.perp)]
        ELSE IF ~(liqee_base_lots # 0)
        THEN [out3 EXCEPT !.result = "RequireMsg"]
        ELSE IF sized.result # "Ok"
        THEN [out4 EXCEPT !.result = sized.result]
        ELSE [out5 EXCEPT
                !.result = LiqorHealthCheck(liqor_traded, liqor_health)]

\* perp_liq_base_position(ctx, max_base_transfer): ctx gives the accounts,
\* the signer liqor_owner and the remaining accounts (health_accounts_ok:
\* the health engine can be built from them)
perp_liq_base_position(liqor0, liqee0, market, price, liqor_owner, max_base_transfer, health_accounts_ok) ==
    LET out0 == Outcome(liqor0, liqee0)
        liqee_init_health == health(liqee0, market, price, "Init")
        maint_health == health(liqee0, market, price, "Maint")
        gate == LiqeeGate(liqee0, liqee_init_health, maint_health)
        out1 == [out0 EXCEPT !.liqee = gate.liqee,
                             !.liqee_init_health = liqee_init_health,
                             !.maint_health =
                                IF liqee0.being_liquidated THEN 0
                                ELSE maint_health,
                             !.stage = "gate"]
    IN  IF LiqorChecks(liqor0, liqor_owner) # "Ok"
        THEN [out0 EXCEPT !.result = LiqorChecks(liqor0, liqor_owner)]
        ELSE IF ~health_accounts_ok
        THEN [out0 EXCEPT !.result = "AccountError"]
        ELSE IF gate.result = "Return"
        THEN [out1 EXCEPT !.stage = "recovered"]
        ELSE IF gate.result # "Continue"
        THEN [out1 EXCEPT !.result = gate.result]
        ELSE TakeOver(out1, market, price, max_base_transfer)

---------------------------------------------------------------------------
(* The explored markets, accounts and arguments *)

\* a market with liquidation fee 1/4 and the weights w (in quarters):
\* init asset, maint asset, init liab, maint liab
Market(w, funding) ==
    [base_lot_size |-> 1, liquidation_fee |-> Quarters(1),
     funding |-> funding,
     init_asset_weight |-> Quarters(w[1]),
     maint_asset_weight |-> Quarters(w[2]),
     init_liab_weight |-> Quarters(w[3]),
     maint_liab_weight |-> Quarters(w[4])]

\* ordinary weights: 1 - Aw - f = 1/2 and Lw - 1 + f = 3/4
OrdinaryWeights == <<1, 2, 6, 5>>

\* degenerate weights: 1 - Aw - f = 0 and Lw - 1 + f = 0
ZeroWeights == <<3, 3, 3, 3>>

\* degenerate weights: 1 - Aw - f < 0 and Lw - 1 + f < 0
NegativeWeights == <<4, 4, 2, 2>>

\* oracle prices
Prices == { FromInt(2) + Quarters(1), FromInt(4) }

\* the market's cumulative funding per lot
Fundings == { ZERO, ONE }

\* the markets with their oracle price
Markets ==
    { [market |-> Market(OrdinaryWeights, f), price |-> p] :
        f \in Fundings, p \in Prices }
    \cup { [market |-> Market(w, ZERO), price |-> FromInt(4)] :
            w \in {ZeroWeights, NegativeWeights} }

\* base lots of the liqee's position
LiqeeBaseLots == (-MaxLots .. MaxLots) \cup {100, -40}

\* the caller's max_base_transfer
MaxBaseTransfers == (-MaxLots .. MaxLots) \cup {50, 150, -10}

\* health of the liqee's token positions
LiqeeOtherHealths ==
    { FromInt(-2500), FromInt(-100), ZERO, FromInt(170), FromInt(240) - 1,
      FromInt(240) }

\* a position of `lots` base lots entered at price 4
EnteredPosition(lots, open_orders) ==
    [active |-> TRUE, base_position_lots |-> lots,
     quote_position |-> FromInt(-4 * lots),
     settled_funding |-> ZERO, has_open_orders |-> open_orders]

LiqeePositions ==
    {NoPerpPosition}
    \cup { EnteredPosition(lots, FALSE) : lots \in LiqeeBaseLots }
    \cup { EnteredPosition(lots, TRUE) : lots \in {0, 1} }

Account(being_liquidated, in_health_region, other_health, perp, slots) ==
    [owner |-> "owner", delegate |-> "delegate",
     being_liquidated |-> being_liquidated,
     in_health_region |-> in_health_region,
     other_health |-> other_health, perp |-> perp,
     free_perp_slots |-> slots]

\* liquidators: rich or poor, with or without a position or a free slot,
\* flagged, inside a health region
LiqorStates ==
    { Account(FALSE, FALSE, FromInt(1000), NoPerpPosition, 1),
      Account(FALSE, FALSE, FromInt(1000), EnteredPosition(1, FALSE), 0),
      Account(FALSE, FALSE, FromInt(1000), NoPerpPosition, 0),
      Account(TRUE, FALSE, FromInt(1000), NoPerpPosition, 1),
      Account(FALSE, FALSE, ZERO, NoPerpPosition, 1),
      Account(FALSE, TRUE, ZERO, NoPerpPosition, 1) }

\* the signer and the remaining accounts of an invocation; when the
\* remaining accounts are unusable the health engine cannot be built
Contexts ==
    { [liqor_owner |-> k, health_accounts_ok |-> TRUE] : k \in Keys }
    \cup { [liqor_owner |-> "owner", health_accounts_ok |-> FALSE] }

\* no instruction on record
---------------------------------------------------------------------------
(* The token table of the group (state/mango_group.rs) *)

\* number of slots of the token table
MAX_TOKENS == 60

\* Pubkey::default(): the all-zero key
PubkeyDefault == "11111111111111111111111111111111"

\* keys of mints that get registered, and of one that never is
Mints == { "mintA", "mintB", "mintC" }
UnregisteredMint == "mintD"
RequestedMints == Mints \cup { UnregisteredMint, PubkeyDefault }

\* the indexes of Tokens::infos
TokenSlots == 0 .. MAX_TOKENS - 1

\* a TokenInfo; a slot that holds no token is all zero
TokenInfo(mint, decimals) == [mint |-> mint, decimals |-> decimals, maint_asset_weight |-> IF mint = PubkeyDefault THEN ZERO ELSE Quarters(3), init_asset_weight |-> IF mint = PubkeyDefault THEN ZERO ELSE Quarters(2), maint_liab_weight |-> IF mint = PubkeyDefault THEN ZERO ELSE Quarters(5), init_liab_weight |-> IF mint = PubkeyDefault THEN ZERO ELSE Quarters(6)]
EmptyTokenInfo == TokenInfo(PubkeyDefault, 0)

\* TokenInfo::is_valid
is_valid(ti) == ti.mint # PubkeyDefault

\* Tokens: the table whose leading slots hold the mints of assignment
\* (a function from the leading slots to keys) and whose other slots are
\* empty
Tokens(assignment) == [infos |-> [i \in TokenSlots |-> IF i \in DOMAIN assignment THEN TokenInfo(assignment[i], IF assignment[i] = PubkeyDefault THEN 0 ELSE 6 + i) ELSE EmptyTokenInfo]]

\* the tables explored: a mint is registered in at most one slot, slots
\* in between may be empty
TokenTables == { Tokens(a) : a \in { f \in [0 .. MaxRegistered - 1 -> Mints \cup {PubkeyDefault}] : \A i, j \in DOMAIN f : (i # j /\ f[i] = f[j]) => f[i] = PubkeyDefault } }

\* Option::None of a position
None == -1

RECURSIVE Position(_, _, _)
\* infos.iter().position(|ti| ti.mint == *mint), scanning from slot i
Position(infos, mint, i) ==
    IF i >= MAX_TOKENS THEN None
    ELSE IF infos[i].mint = mint THEN i
    ELSE Position(infos, mint, i + 1)

\* a lookup whose scan leaves out the first slot
index_for_mint_skipping_first(self, mint) ==
    LET pos == Position(self.infos, mint, 1)
    IN  IF pos = None THEN [result |-> "SomeError", index |-> None]
        ELSE [result |-> "Ok", index |-> pos]

\* Tokens::index_for_mint
index_for_mint(self, mint) ==
    LET pos == Position(self.infos, mint, 0)
    IN  IF pos = None THEN [result |-> "SomeError", index |-> None]
        ELSE [result |-> "Ok", index |-> pos]

\* Tokens::info_for_mint
info_for_mint(self, mint) ==
    LET idx == index_for_mint(self, mint)
    IN  IF idx.result # "Ok" THEN [result |-> idx.result, info |-> EmptyTokenInfo]
        ELSE [result |-> "Ok", info |-> self.infos[idx.index]]

NoCall == [kind |-> "none"]
NoLookup == [kind |-> "none"]

---------------------------------------------------------------------------
(* The state machine *)

\* The accounts may have been flagged by earlier liquidations.  The large
\* positions are held in the ordinary market at price 4.
Init ==
    /\ \E m \in Markets : perp_market = m.market /\ oracle_price = m.price
    /\ \E pos \in LiqeePositions, h \in LiqeeOtherHealths, b \in BOOLEAN :
          /\ liqee = Account(b, FALSE, h, pos, 0)
          /\ Abs(pos.base_position_lots) > MaxLots + 1 =>
                /\ oracle_price = FromInt(4)
                /\ perp_market \in { Market(OrdinaryWeights, f) : f \in Fundings }
    /\ liqor \in LiqorStates
    /\ last = NoCall
    /\ tokens = Tokens([i \in 0 .. 1 |-> IF i = 0 THEN "mintA" ELSE "mintB"])
    /\ lookup = NoLookup

\* the instruction with its mutations kept whatever it returns
PerpLiqBasePositionNoRollback ==
    /\ last = NoCall
    /\ \E ctx \in Contexts, max_base_transfer \in MaxBaseTransfers :
        LET out == perp_liq_base_position(liqor, liqee, perp_market,
                        oracle_price, ctx.liqor_owner, max_base_transfer,
                        ctx.health_accounts_ok)
        IN  /\ liqee' = out.liqee
            /\ liqor' = out.liqor
            /\ last' = [kind |-> "liq",
                        pre |-> [liqee |-> liqee, liqor |-> liqor,
                                 perp_market |-> perp_market,
                                 oracle_price |-> oracle_price],
                        liqor_owner |-> ctx.liqor_owner,
                        max_base_transfer |-> max_base_transfer,
                        health_accounts_ok |-> ctx.health_accounts_ok,
                        out |-> out]
            /\ UNCHANGED <<perp_market, oracle_price, tokens, lookup>>

\* one perp_liq_base_position instruction: its mutations are kept when it
\* returns Ok and discarded with the failed transaction otherwise.  `last`
\* records the invocation: the state before it, its arguments and outcome.
PerpLiqBasePosition ==
    /\ last = NoCall
    /\ \E ctx \in Contexts, max_base_transfer \in MaxBaseTransfers :
        LET out == perp_liq_base_position(liqor, liqee, perp_market,
                        oracle_price, ctx.liqor_owner, max_base_transfer,
                        ctx.health_accounts_ok)
        IN  /\ liqee' = IF out.result = "Ok" THEN out.liqee ELSE liqee
            /\ liqor' = IF out.result = "Ok" THEN out.liqor ELSE liqor
            /\ last' = [kind |-> "liq",
                        pre |-> [liqee |-> liqee, liqor |-> liqor,
                                 perp_market |-> perp_market,
                                 oracle_price |-> oracle_price],
                        liqor_owner |-> ctx.liqor_owner,
                        max_base_transfer |-> max_base_transfer,
                        health_accounts_ok |-> ctx.health_accounts_ok,
                        out |-> out]
            /\ UNCHANGED <<perp_market, oracle_price, tokens, lookup>>

\* the record of the last instruction is filed away before anything else
\* happens to the accounts
Forget ==
    /\ last # NoCall
    /\ last' = NoCall
    /\ UNCHANGED <<liqee, liqor, perp_market, oracle_price, tokens, lookup>>

\* the liqee's token positions change between instructions (deposits,
\* withdrawals, token prices)
LiqeeOtherHealthChange ==
    /\ last = NoCall
    /\ \E h \in LiqeeOtherHealths :
          liqee' = [liqee EXCEPT !.other_health = h]
    /\ liqee'.other_health # liqee.other_health
    /\ last' = NoCall
    /\ UNCHANGED <<liqor, perp_market, oracle_price, tokens, lookup>>

Next == PerpLiqBasePosition \/ Forget \/ LiqeeOtherHealthChange

Spec == Init /\ [][Next]_vars

---------------------------------------------------------------------------
(* Repeated liquidation of one liqee with nothing else happening to it *)

\* a market of positive sensitivity at a fixed price, a liqor that can
\* take over every position of the liqee
LiveInit ==
    /\ Init
    /\ oracle_price = FromInt(4)
    /\ perp_market \in { Market(OrdinaryWeights, f) : f \in Fundings }
    /\ liqor = Account(FALSE, FALSE, FromInt(1000), NoPerpPosition, 1)

LiveNext == PerpLiqBasePosition \/ Forget

\* instructions keep being sent and their records keep being filed away
LiveSpec == LiveInit /\ [][LiveNext]_vars /\ WF_vars(PerpLiqBasePosition) /\ WF_vars(Forget)

---------------------------------------------------------------------------
(* Lookups in the token table *)

RegistryInit ==
    /\ tokens \in TokenTables
    /\ lookup = NoLookup
    /\ perp_market = Market(OrdinaryWeights, ZERO)
    /\ oracle_price = FromInt(4)
    /\ liqee = Account(FALSE, FALSE, FromInt(240), NoPerpPosition, 0)
    /\ liqor = Account(FALSE, FALSE, FromInt(1000), NoPerpPosition, 1)
    /\ last = NoCall

\* one call of Tokens::index_for_mint(&self, mint)
IndexForMint ==
    /\ \E mint \in RequestedMints :
          LET r == index_for_mint(tokens, mint)
          IN  lookup' = [kind |-> "index_for_mint", self |-> tokens, mint |-> mint, result |-> r.result, index |-> r.index, info |-> EmptyTokenInfo]
    /\ tokens' = tokens
    /\ UNCHANGED <<liqee, liqor, perp_market, oracle_price, last>>

\* one call of Tokens::info_for_mint(&self, mint)
InfoForMint ==
    /\ \E mint \in RequestedMints :
          LET r == info_for_mint(tokens, mint)
          IN  lookup' = [kind |-> "info_for_mint", self |-> tokens, mint |-> mint, result |-> r.result, index |-> None, info |-> r.info]
    /\ tokens' = tokens
    /\ UNCHANGED <<liqee, liqor, perp_market, oracle_price, last>>

RegistryNext == IndexForMint \/ InfoForMint

RegistrySpec == RegistryInit /\ [][RegistryNext]_vars

---------------------------------------------------------------------------
(* Vocabulary of the properties *)

\* an instruction has just run
Called == last.kind = "liq"

Succeeded == Called /\ last.out.result = "Ok"

Failed == Called /\ last.out.result # "Ok"

\* the instruction computed a transfer (both require_msg! passed and no
\* checked operation failed)
Sized == Called /\ last.out.stage = "transferred"

\* accounts and market are as they were before the instruction
Unchanged ==
    /\ liqee = last.pre.liqee
    /\ liqor = last.pre.liqor
    /\ perp_market = last.pre.perp_market
    /\ oracle_price = last.pre.oracle_price

\* the liqee's health before the instruction
PreHealth(health_type) ==
    health(last.pre.liqee, last.pre.perp_market, last.pre.oracle_price,
           health_type)

\* L, M, t and the zero-health target of the instruction
PreBaseLots == last.pre.liqee.perp.base_position_lots

BaseTransfer == last.out.base_transfer

ZeroTarget == last.out.base_transfer_for_zero

\* the base lots the instruction took from the liqee in memory
ExecutedTransfer ==
    PreBaseLots - last.out.liqee.perp.base_position_lots

\* clamp(x, lo, hi)
Clamp(x, lo, hi) == Max(lo, Min(x, hi))

---------------------------------------------------------------------------
(* C1 *)

\* C1: in the long branch (L > 0, M > 0) the executed base transfer t
\* satisfies 0 <= t <= min(L, M), whatever the liqee's Initial health and
\* the sensitivity, whenever the division succeeds.
C1_LongTransferWithinBounds ==
    (Sized /\ PreBaseLots > 0) =>
        /\ last.max_base_transfer > 0
        /\ 0 <= BaseTransfer
        /\ BaseTransfer <= Min(PreBaseLots, last.max_base_transfer)
        /\ ExecutedTransfer = BaseTransfer

\* a long liquidation whose zero-health target exceeds the position, which
\* is smaller than the caller's bound
C1_Witness ==
    /\ Succeeded /\ Sized
    /\ PreBaseLots > 0
    /\ PreBaseLots < last.max_base_transfer
    /\ ZeroTarget > last.max_base_transfer
    /\ ExecutedTransfer = PreBaseLots

(* C2 *)

\* C2: in the short branch (L < 0, M < 0) the executed base transfer t
\* satisfies max(L, M) <= t <= 0, whatever the liqee's Initial health and
\* the sensitivity, whenever the division succeeds.
C2_ShortTransferWithinBounds ==
    (Sized /\ PreBaseLots < 0) =>
        /\ last.max_base_transfer < 0
        /\ BaseTransfer <= 0
        /\ Max(PreBaseLots, last.max_base_transfer) <= BaseTransfer
        /\ ExecutedTransfer = BaseTransfer

\* a short liquidation whose zero-health target exceeds the position, which
\* is smaller than the caller's bound
C2_Witness ==
    /\ Succeeded /\ Sized
    /\ PreBaseLots < 0
    /\ PreBaseLots > last.max_base_transfer
    /\ ZeroTarget < last.max_base_transfer
    /\ ExecutedTransfer = PreBaseLots

(* C3 *)

ScenarioB ==
    /\ Succeeded /\ Sized
    /\ PreBaseLots = 100
    /\ last.max_base_transfer = 150
    /\ ZeroTarget = 200
    /\ ExecutedTransfer = 100

\* Scenario C: -40 lots, bound -10, zero-health target -60: -10 lots move
ScenarioC ==
    /\ Succeeded /\ Sized
    /\ PreBaseLots = -40
    /\ last.max_base_transfer = -10
    /\ ZeroTarget = -60
    /\ ExecutedTransfer = -10

---------------------------------------------------------------------------
(* C4 *)

\* the liqor passes its checks and the health engine can be built
LiqorAdmitted ==
    /\ LiqorChecks(last.pre.liqor, last.liqor_owner) = "Ok"
    /\ last.health_accounts_ok

\* the liqee was flagged and its Initial health was already >= 0
AlreadyRecovered ==
    /\ Called /\ LiqorAdmitted
    /\ last.pre.liqee.being_liquidated
    /\ PreHealth("Init") >= ZERO

\* C4 as stated: liquidating a flagged liqee whose Initial health is
\* already >= 0 returns success and mutates nothing, the liqee included.
C4_NoMutationAtAll ==
    AlreadyRecovered => (Succeeded /\ Unchanged)

\* C4 amended: liquidating a flagged liqee whose Initial health is already
\* >= 0 returns success without computing or applying a transfer; the only
\* mutation is that the liqee's being_liquidated flag is cleared.
C4_OnlyFlagCleared ==
    AlreadyRecovered =>
        /\ Succeeded
        /\ last.out.stage = "recovered"
        /\ BaseTransfer = 0 /\ last.out.quote_transfer = 0
        /\ liqee = [last.pre.liqee EXCEPT !.being_liquidated = FALSE]
        /\ liqor = last.pre.liqor
        /\ perp_market = last.pre.perp_market
        /\ oracle_price = last.pre.oracle_price

\* a flagged liqee with a non-zero position, a liqor without a position and
\* unsettled funding: the instruction could have traded and settled
C4_Witness ==
    /\ AlreadyRecovered /\ Succeeded
    /\ PreBaseLots # 0
    /\ last.max_base_transfer * PreBaseLots > 0
    /\ ~last.pre.liqor.perp.active
    /\ last.pre.perp_market.funding # last.pre.liqee.perp.settled_funding
    /\ ~liqee.being_liquidated

(* C5 *)

\* C5: when the liqee is not flagged and its Maintenance health is >= 0,
\* the instruction fails and the liqee's flag, both accounts' positions and
\* the market are unchanged.
C5_HealthyLiqeeRejected ==
    (Called /\ ~last.pre.liqee.being_liquidated /\ PreHealth("Maint") >= ZERO)
        => (Failed /\ Unchanged /\ ~liqee.being_liquidated)

\* Scenario D: an admitted liqor, an unflagged liqee with positive
\* Maintenance health and negative Initial health: HealthMustBeNegative
C5_Witness ==
    /\ Called /\ LiqorAdmitted
    /\ ~last.pre.liqee.being_liquidated
    /\ PreHealth("Maint") > ZERO
    /\ PreHealth("Init") < ZERO
    /\ last.out.result = "HealthMustBeNegative"
    /\ Unchanged

(* C6 *)

\* the liqor's Initial health after the transfer, on the accounts in memory
LiqorEndHealth ==
    health(last.out.liqor, last.pre.perp_market, last.pre.oracle_price, "Init")

\* C6 as stated: whenever the liqor's Initial health after the transfer is
\* negative the instruction aborts and nothing is mutated.
C6_NegativeLiqorHealthAborts ==
    (Sized /\ LiqorEndHealth < ZERO) => (Failed /\ Unchanged)

\* C6 amended: whenever the liqor is not inside a health region and its
\* Initial health after the transfer is negative, the instruction aborts
\* with HealthMustBePositive and every earlier mutation is discarded.
C6_NegativeLiqorHealthAbortsOutsideRegion ==
    (Sized /\ ~last.pre.liqor.in_health_region /\ LiqorEndHealth < ZERO)
        => (last.out.result = "HealthMustBePositive" /\ Unchanged)

\* Scenario E: the liqor ends with negative health after the flag was set,
\* its position created, funding settled and lots transferred in memory
C6_Witness ==
    /\ Sized /\ ~last.pre.liqor.in_health_region
    /\ LiqorEndHealth < ZERO
    /\ last.out.result = "HealthMustBePositive"
    /\ ~last.pre.liqee.being_liquidated /\ last.out.liqee.being_liquidated
    /\ ~last.pre.liqor.perp.active /\ last.out.liqor.perp.active
    /\ last.out.liqee.perp.settled_funding
            # last.pre.liqee.perp.settled_funding
    /\ BaseTransfer # 0
    /\ Unchanged

(* C7 *)

C7_OtherErrors ==
    /\ Failed
    /\ last.out.result \in {"HasOpenPerpOrders", "RequireMsg"}
    /\ last.out.liqee # last.pre.liqee
    /\ last.out.liqor # last.pre.liqor

(* C8 *)

\* C8: if the signer is neither owner nor delegate of the liqor, or the
\* liqor is flagged as being liquidated, the instruction fails before the
\* liqee is examined and mutates no account.
C8_LiqorRejected ==
    (Called /\ (\/ ~is_owner_or_delegate(last.pre.liqor, last.liqor_owner)
                \/ last.pre.liqor.being_liquidated))
        => /\ Failed
           /\ last.out.result \in {"SomeError", "BeingLiquidated"}
           /\ last.out.stage = "start"
           /\ last.out.liqee = last.pre.liqee
           /\ last.out.liqor = last.pre.liqor
           /\ Unchanged

\* a flagged liqor signing as owner against a liquidatable liqee
C8_Witness ==
    /\ Called
    /\ last.liqor_owner = "owner"
    /\ last.pre.liqor.being_liquidated
    /\ last.out.result = "BeingLiquidated"
    /\ ~last.pre.liqee.being_liquidated
    /\ PreHealth("Maint") < ZERO
    /\ PreBaseLots > 0 /\ last.max_base_transfer > 0
    /\ Unchanged

\* a signer that is neither owner nor delegate
C8_StrangerWitness ==
    /\ Called
    /\ last.liqor_owner = "stranger"
    /\ last.out.result = "SomeError"
    /\ Unchanged

---------------------------------------------------------------------------
(* C9 *)

\* the step is a successful instruction that transferred and recomputed a
\* liqee Initial health >= 0
EndsRecovered ==
    /\ last'.kind = "liq"
    /\ last'.out.result = "Ok"
    /\ last'.out.stage = "transferred"
    /\ last'.out.liqee_end_health >= ZERO

\* one step of the liqee's being_liquidated flag
HysteresisStep ==
    LET init_health == health(liqee, perp_market, oracle_price, "Init")
        maint_health == health(liqee, perp_market, oracle_price, "Maint")
    IN  /\ (~liqee.being_liquidated /\ liqee'.being_liquidated)
                => (last'.kind = "liq" /\ maint_health < ZERO)
        /\ (liqee.being_liquidated /\ ~liqee'.being_liquidated)
                => /\ last'.kind = "liq"
                   /\ last'.out.result = "Ok"
                   /\ init_health >= ZERO \/ EndsRecovered
        /\ EndsRecovered => ~liqee'.being_liquidated
        /\ (liqee.being_liquidated /\ init_health < ZERO /\ ~EndsRecovered)
                => liqee'.being_liquidated

\* C9: over any sequence of steps the liqee's flag goes from unset to set
\* only in an instruction entered with Maintenance health < 0; it goes from
\* set to unset only in an instruction whose Initial health, at entry or
\* recomputed after the transfer, is >= 0; it is unset whenever a successful
\* instruction recomputes an Initial health >= 0; and a flagged liqee whose
\* Initial health stays negative stays flagged, whatever its Maintenance
\* health.
C9_Hysteresis == [][HysteresisStep]_vars

\* a flagged liqee with negative Initial and non-negative Maintenance health
\* is liquidated by one lot and stays flagged
C9_Witness ==
    /\ Succeeded /\ Sized
    /\ last.pre.liqee.being_liquidated
    /\ PreHealth("Init") < ZERO
    /\ PreHealth("Maint") >= ZERO
    /\ BaseTransfer # 0
    /\ last.out.liqee_end_health < ZERO
    /\ liqee.being_liquidated

\* an unflagged liqee enters liquidation and leaves it in the same
\* instruction
C9_EnterAndExit ==
    /\ Succeeded /\ Sized
    /\ ~last.pre.liqee.being_liquidated
    /\ last.out.liqee_end_health >= ZERO
    /\ ~liqee.being_liquidated

(* C10 *)

\* the sensitivity s of the branch the liqee's position selects
PreSensitivity ==
    LET price_per_lot == PricePerLot(last.pre.perp_market,
                                     last.pre.oracle_price)
    IN  IF PreBaseLots > 0
        THEN LongHealthPerLot(last.pre.perp_market, price_per_lot)
        ELSE ShortHealthPerLot(last.pre.perp_market, price_per_lot)

\* the instruction got as far as computing s: a non-zero position and a
\* bound of its sign
ReachedSensitivity ==
    /\ Called
    /\ last.out.stage \in {"sizing", "transferred"}
    /\ PreBaseLots * last.max_base_transfer > 0

\* C10: if the sensitivity s is non-positive the instruction fails with a
\* fatal error and no transfer; it never completes successfully with the
\* target clamped.
C10_NonPositiveSensitivityFailsFast ==
    (ReachedSensitivity /\ PreSensitivity <= ZERO)
        => (last.out.result = "Panic" /\ Unchanged)

\* what the code does: s = 0 fails the division; with s < 0 and negative
\* Initial health the division succeeds and, unless the quotient overflows
\* the conversion to i64, the transfer is clamped to zero lots
SensitivityOutcomes ==
    /\ (ReachedSensitivity /\ PreSensitivity = ZERO)
            => last.out.result = "Panic"
    /\ (ReachedSensitivity /\ PreSensitivity < ZERO
            /\ last.out.liqee_init_health < ZERO
            /\ last.out.result # "Panic")
            => (Sized /\ BaseTransfer = 0)

\* the failing input of C10: a 1-lot long liqee with Initial health -100 in
\* a market with init_asset_weight 1 and fee 1/4 at price 4 (s = -1),
\* max_base_transfer 1: the instruction returns Ok with a zero-lot transfer
\* and leaves the liqee flagged
C10_FailingInput ==
    /\ Succeeded /\ Sized
    /\ last.pre.perp_market.init_asset_weight = ONE
    /\ last.pre.perp_market.liquidation_fee = Quarters(1)
    /\ last.pre.oracle_price = FromInt(4)
    /\ PreBaseLots = 1 /\ last.max_base_transfer = 1
    /\ ~last.pre.liqee.being_liquidated
    /\ last.out.liqee_init_health = FromInt(-100)
    /\ last.out.health_per_lot = FromInt(-1)
    /\ ZeroTarget = -100
    /\ BaseTransfer = 0 /\ last.out.quote_transfer = 0
    /\ liqee.being_liquidated

---------------------------------------------------------------------------
(* C11: conservation between the two accounts *)

\* the position an account enters the transfer with: created if missing,
\* funding settled
SettledPosition(account, market) ==
    settle_funding(ensure_perp_position(account).liqor.perp, market)

BaseLotsOfBoth == liqee.perp.base_position_lots + liqor.perp.base_position_lots

C11_Step ==
    /\ BaseLotsOfBoth' = BaseLotsOfBoth
    /\ (last'.kind = "liq" /\ last'.out.result = "Ok" /\ last'.out.stage = "transferred") =>
        LET t == last'.out.base_transfer
            quote == last'.out.quote_transfer
            liqee_before == settle_funding(liqee.perp, perp_market)
            liqor_before == SettledPosition(liqor, perp_market)
            liqee_base_delta == liqee'.perp.base_position_lots - liqee_before.base_position_lots
            liqor_base_delta == liqor'.perp.base_position_lots - liqor_before.base_position_lots
            liqee_quote_delta == liqee'.perp.quote_position - liqee_before.quote_position
            liqor_quote_delta == liqor'.perp.quote_position - liqor_before.quote_position
        IN  /\ liqee_base_delta = -t /\ liqor_base_delta = t
            /\ liqee_quote_delta = -quote /\ liqor_quote_delta = quote
            /\ liqee_base_delta + liqor_base_delta = 0
            /\ liqee_quote_delta + liqor_quote_delta = 0

\* C11: every successful transfer changes the liqee's position by
\* (-base_transfer, -quote_transfer) and the liqor's by (+base_transfer,
\* +quote_transfer), counted from the funding-settled positions, so the
\* deltas of the two accounts cancel for base and for quote; and no step
\* changes the sum of the two accounts' base lots.
C11_Conservation == [][C11_Step]_vars

\* a successful transfer of lots and quote between positions that both had
\* funding to settle
C11_Witness ==
    /\ Succeeded /\ Sized
    /\ BaseTransfer # 0 /\ last.out.quote_transfer # 0
    /\ last.pre.liqor.perp.active
    /\ UnsettledFunding(last.pre.liqee.perp, last.pre.perp_market) # 0
    /\ UnsettledFunding(last.pre.liqor.perp, last.pre.perp_market) # 0
    /\ liqee = last.out.liqee /\ liqor = last.out.liqor

---------------------------------------------------------------------------
(* C12: a transfer never deepens the liqee's deficit *)

\* s, the health the code expects the liqee to gain per lot taken over
HealthPerLot == last.out.health_per_lot

\* the lots taken over, counted in the direction of the liqee's position
LotsTaken == IF PreBaseLots > 0 THEN BaseTransfer ELSE -BaseTransfer

\* how far below zero a health is
Deficit(h) == Max(0, -h)

\* the liqee's init health after the transfer if it changes by s per lot
HealthBySensitivity == last.out.liqee_init_health + LotsTaken * HealthPerLot

\* C12: when the sensitivity s is positive, the liqee's init health deficit
\* after the computed transfer, taken as H + lots * s, is never larger than
\* the deficit before it; for a long position the health that the
\* instruction recomputes after the transfer agrees: its deficit is never
\* larger than before either.
C12_MonotonicImprovement ==
    (Sized /\ HealthPerLot > 0) =>
        /\ LotsTaken >= 0
        /\ Deficit(HealthBySensitivity) <= Deficit(last.out.liqee_init_health)
        /\ PreBaseLots > 0 =>
              Deficit(last.out.liqee_end_health) <= Deficit(last.out.liqee_init_health)

\* a long position in deficit was partly taken over and the deficit shrank
C12_Witness ==
    /\ Succeeded /\ Sized /\ HealthPerLot > 0
    /\ PreBaseLots > 0 /\ BaseTransfer > 0 /\ BaseTransfer < PreBaseLots
    /\ last.out.liqee_init_health < 0
    /\ last.out.liqee_end_health < 0
    /\ last.out.liqee_end_health > last.out.liqee_init_health

---------------------------------------------------------------------------
(* C13: rounding of the zero-health target *)

\* the computed transfer is the zero-health target itself: neither the
\* position nor the caller's bound cut it
TargetNotCut == BaseTransfer = ZeroTarget

\* C13: with s > 0 and H < 0, when the zero-health target (rounded up for a
\* long position, down for a short one) is not cut by the position or the
\* caller's bound, the liqee's init health after the transfer, H + |t| * s,
\* is >= 0 and the liqee is no longer being liquidated when the instruction
\* returns.
C13_RoundingRestoresSolvency ==
    (Succeeded /\ Sized /\ HealthPerLot > 0 /\ last.out.liqee_init_health < 0 /\ TargetNotCut) =>
        /\ HealthBySensitivity >= 0
        /\ ~liqee.being_liquidated

\* a long position whose deficit is a whole number of lots plus less than
\* the resolution of the division: the target is one lot short
C13_FailingInput ==
    /\ Succeeded /\ Sized /\ TargetNotCut
    /\ last.pre.oracle_price = FromInt(4)
    /\ PreBaseLots = 100 /\ last.max_base_transfer = 50
    /\ last.out.liqee_init_health = -(FromInt(60) + 1)
    /\ HealthPerLot = FromInt(2)
    /\ BaseTransfer = 30
    /\ HealthBySensitivity = -1
    /\ last.out.liqee_end_health = -1
    /\ liqee.being_liquidated

---------------------------------------------------------------------------
(* C14: the quote amount of a transfer *)

\* base lot size times oracle price, and the fee, of the instruction
PrePricePerLot == last.pre.perp_market.base_lot_size * last.pre.oracle_price

PreFee == last.pre.perp_market.liquidation_fee

\* the product of a lot count and two fixed-point values, rounded down to
\* the fixed-point resolution
LotsTimes(lots, x, y) == (lots * x * y) \div Scale

\* C14: with 0 <= f < 1 the quote amount of a computed transfer t is
\* -t * price_per_lot * (1 - f) for a long position (<= 0 as t >= 0) and
\* -t * price_per_lot * (1 + f) for a short one (>= 0 as t <= 0), where
\* price_per_lot is base lot size times oracle price and the product is
\* held at the fixed-point resolution; a zero-lot transfer moves zero
\* quote.
C14_QuoteAmount ==
    (Sized /\ 0 <= PreFee /\ PreFee < ONE) =>
        /\ PreBaseLots > 0 =>
              /\ last.out.quote_transfer = LotsTimes(-BaseTransfer, PrePricePerLot, ONE - PreFee)
              /\ BaseTransfer >= 0 /\ last.out.quote_transfer <= 0
        /\ PreBaseLots < 0 =>
              /\ last.out.quote_transfer = LotsTimes(-BaseTransfer, PrePricePerLot, ONE + PreFee)
              /\ BaseTransfer <= 0 /\ last.out.quote_transfer >= 0
        /\ BaseTransfer = 0 => last.out.quote_transfer = 0
        /\ last.out.liqor.perp.quote_position = SettledPosition(last.pre.liqor, last.pre.perp_market).quote_position + last.out.quote_transfer

\* a lot of a long position taken over at a price whose discounted value
\* is not on the fixed-point grid
C14_Witness ==
    /\ Succeeded /\ Sized
    /\ PreBaseLots > 0 /\ BaseTransfer > 0
    /\ last.out.quote_transfer < 0
    /\ (BaseTransfer * PrePricePerLot * (ONE - PreFee)) % Scale # 0

---------------------------------------------------------------------------
(* C15: the caller's bound and the liqee's position agree in sign *)

\* the caller's bound M of the instruction
MaxBaseTransfer == last.max_base_transfer

\* L and M are both strictly positive or both strictly negative
SignsAgree ==
    \/ PreBaseLots > 0 /\ MaxBaseTransfer > 0
    \/ PreBaseLots < 0 /\ MaxBaseTransfer < 0

\* the instruction changed a base or quote position
PositionsChanged ==
    \/ liqee.perp.base_position_lots # last.pre.liqee.perp.base_position_lots
    \/ liqee.perp.quote_position # last.pre.liqee.perp.quote_position
    \/ liqor.perp.base_position_lots # last.pre.liqor.perp.base_position_lots
    \/ liqor.perp.quote_position # last.pre.liqor.perp.quote_position

\* the instruction returned early because the flagged liqee had recovered
ReturnedEarly == Succeeded /\ last.out.stage = "recovered"

\* C15 as stated: a transfer is applied only if L and M agree in sign, and
\* the instruction fails with an error whenever they do not (L = 0, or
\* L > 0 with M <= 0, or L < 0 with M >= 0).
C15_DisagreeingSignsFail ==
    Called =>
        /\ (Sized \/ PositionsChanged) => SignsAgree
        /\ ~SignsAgree => Failed

\* C15: a transfer is applied only if L and M agree in sign; when they do
\* not, the instruction fails with an error and changes nothing, unless
\* the liqee was flagged and its init health has recovered: then the
\* instruction returns Ok before it looks at L and M, and only clears the
\* flag.
C15_DisagreeingSignsFailPastGate ==
    Called =>
        /\ (Sized \/ PositionsChanged) => SignsAgree
        /\ (~SignsAgree /\ ~ReturnedEarly) => (Failed /\ Unchanged)
        /\ (~SignsAgree /\ ReturnedEarly) => (~PositionsChanged /\ BaseTransfer = 0)

\* a liquidatable long position and a negative bound: the instruction got
\* to the sign requirement and failed there
C15_Witness ==
    /\ Failed /\ last.out.result = "RequireMsg" /\ last.out.stage = "sizing"
    /\ PreBaseLots > 0 /\ MaxBaseTransfer < 0
    /\ Unchanged

\* a recovered liqee without any base position: the instruction returns Ok
C15_EarlyReturn ==
    /\ ReturnedEarly /\ PreBaseLots = 0 /\ last.pre.liqee.perp.active
    /\ ~liqee.being_liquidated

---------------------------------------------------------------------------
(* C16: positions with open orders *)

\* the liqee's perp position had open orders when the instruction started
PreOpenOrders == last.pre.liqee.perp.active /\ last.pre.liqee.perp.has_open_orders

\* C16 as stated: when the liqee's position has open orders the
\* instruction fails with an error and no base or quote is transferred.
C16_OpenOrdersFail ==
    (Called /\ PreOpenOrders) => (Failed /\ ~PositionsChanged)

\* C16: a liqee position with open orders is never liquidated: no base or
\* quote moves from or to it, and the instruction fails with an error
\* (HasOpenPerpOrders when it gets to the position) unless the liqee was
\* flagged and its init health has recovered: then the instruction returns
\* Ok before it looks at the position and only clears the flag.
C16_OpenOrdersNeverLiquidated ==
    (Called /\ PreOpenOrders) =>
        /\ ~Sized /\ ~PositionsChanged
        /\ last.out.base_transfer = 0 /\ last.out.quote_transfer = 0
        /\ ~ReturnedEarly => (Failed /\ Unchanged)
        /\ last.out.stage = "positions" => last.out.result = "HasOpenPerpOrders"

\* a liquidatable long position with open orders: the instruction got to
\* the position and failed there
C16_Witness ==
    /\ Failed /\ last.out.result = "HasOpenPerpOrders"
    /\ PreOpenOrders /\ PreBaseLots = 1 /\ MaxBaseTransfer = 1
    /\ PreHealth("Maint") < 0
    /\ Unchanged

\* a recovered liqee whose position has open orders: the instruction
\* returns Ok
C16_EarlyReturn == ReturnedEarly /\ PreOpenOrders /\ ~liqee.being_liquidated

---------------------------------------------------------------------------
(* C17: lookups in the token table *)

Looked == lookup.kind # "none"

\* the slots of the table handed to the lookup whose mint is the requested
\* one
MatchingSlots == { i \in TokenSlots : lookup.self.infos[i].mint = lookup.mint }

\* the first of them
FirstMatchingSlot == CHOOSE i \in MatchingSlots : \A j \in MatchingSlots : i <= j

\* C17: index_for_mint returns the index, and info_for_mint the record, of
\* the first slot of the 60-slot table whose mint equals the requested
\* key; both fail with an error when no slot matches; neither changes the
\* table.
C17_LookupFindsFirstMatch ==
    Looked =>
        /\ DOMAIN lookup.self.infos = 0 .. 59
        /\ tokens = lookup.self
        /\ MatchingSlots = {} => lookup.result = "SomeError"
        /\ MatchingSlots # {} =>
              /\ lookup.result = "Ok"
              /\ lookup.kind = "index_for_mint" => lookup.index = FirstMatchingSlot
              /\ lookup.kind = "info_for_mint" => lookup.info = lookup.self.infos[FirstMatchingSlot]

\* a registered mint found behind an empty slot and another mint
C17_Witness ==
    /\ lookup.kind = "index_for_mint" /\ lookup.result = "Ok"
    /\ lookup.mint = "mintC" /\ lookup.index = 2
    /\ lookup.self.infos[0].mint = PubkeyDefault
    /\ lookup.self.infos[1].mint = "mintA"

\* a mint that is in no slot is not found
C17_NotFound ==
    /\ lookup.kind = "info_for_mint" /\ lookup.result = "SomeError"
    /\ lookup.mint = UnregisteredMint
    /\ lookup.self.infos[0].mint = "mintA"

---------------------------------------------------------------------------
(* C20: what a successful lookup returns *)

\* C20: for every requested key, the all-zero key included, the record a
\* successful info_for_mint returns is a registered token (is_valid()), and
\* the slot a successful index_for_mint returns holds one.
C20_LookupReturnsValidInfo ==
    (Looked /\ lookup.result = "Ok") =>
        /\ lookup.kind = "info_for_mint" => is_valid(lookup.info)
        /\ lookup.kind = "index_for_mint" => is_valid(lookup.self.infos[lookup.index])

\* the all-zero key looked up in a table with an empty slot
C20_FailingInput ==
    /\ lookup.kind = "info_for_mint" /\ lookup.result = "Ok"
    /\ lookup.mint = PubkeyDefault
    /\ lookup.self.infos[0].mint = "mintA" /\ lookup.self.infos[1].mint = "mintB"
    /\ lookup.self.infos[2].mint = "mintC"
    /\ lookup.info = EmptyTokenInfo /\ ~is_valid(lookup.info)

---------------------------------------------------------------------------
(* C18: progress of a successful instruction *)

\* C18: every successful instruction that computes a transfer for a liqee
\* with init health H < 0, sensitivity s > 0 and a bound of the position's
\* sign takes over at least one lot (|t| >= 1): the magnitude of the
\* liqee's position strictly decreases and the position never changes
\* sign.
C18_TransfersAtLeastOneLot ==
    (Succeeded /\ Sized /\ last.out.liqee_init_health < 0 /\ HealthPerLot > 0 /\ SignsAgree) =>
        /\ Abs(BaseTransfer) >= 1
        /\ Abs(liqee.perp.base_position_lots) < Abs(PreBaseLots)
        /\ liqee.perp.base_position_lots * PreBaseLots >= 0

\* a flagged long position whose deficit is smaller than what the division
\* can resolve against s: the instruction succeeds and takes over nothing
C18_FailingInput ==
    /\ Succeeded /\ Sized /\ SignsAgree
    /\ last.pre.liqee.being_liquidated
    /\ PreBaseLots = 70 /\ MaxBaseTransfer = 50
    /\ last.out.liqee_init_health = -1 /\ HealthPerLot = FromInt(2)
    /\ ZeroTarget = 0 /\ BaseTransfer = 0 /\ last.out.quote_transfer = 0
    /\ liqee = last.pre.liqee

---------------------------------------------------------------------------
(* C19: a liquidation comes to an end *)

\* the liqee is flagged and still has a base position
UnderLiquidation == liqee.being_liquidated /\ liqee.perp.base_position_lots # 0

\* the last instruction succeeded with a bound of the position's sign
SuccessfulLiquidation == Succeeded /\ SignsAgree

\* C19: with price, weights and fee fixed, s > 0 and nothing else changing
\* the liqee, a flagged liqee that keeps being liquidated by successful
\* instructions with a bound of the position's sign eventually is no longer
\* flagged or has no base position left; it does not stay flagged with a
\* base position forever.
C19_LiquidationEnds ==
    ([]<>SuccessfulLiquidation) => (UnderLiquidation ~> ~UnderLiquidation)

\* the state in which the liquidation is stuck: flagged, 70 lots left, a
\* deficit of one unit of resolution, and the instruction has just
\* succeeded without taking anything
C19_Stuck ==
    /\ UnderLiquidation /\ SuccessfulLiquidation /\ Sized
    /\ liqee = last.pre.liqee /\ liqor = last.pre.liqor
    /\ last.out.liqee_init_health < 0 /\ HealthPerLot > 0
    /\ BaseTransfer = 0

===========================================================================
